---- MODULE Spec2Model ----
(***************************************************************************)
(* The games route of the catalog service: the listing handlers            *)
(* (GET /, GET /search, POST /filter), formatGames, and the write handlers *)
(* (POST /add, /markPlayed, /markNotPlayed) over the Catalog Store.        *)
(*                                                                         *)
(* Strings that are searched by substring (Game.name, Game.location, the   *)
(* search term) are sequences of one-character strings.  Dates are         *)
(* integer instants ("ticks"); a calendar day has TicksPerDay ticks.       *)
(***************************************************************************)
EXTENDS Integers, Sequences, FiniteSets, Bags, TLC

\* ------------------------------------------------------------------ bounds
MaxGames == 3
MaxBorrows == 2
TicksPerDay == 2

\* --------------------------------------------------------- request inputs
\* `undefined` for an optional numeric or date field of a request body.
Undef == 0 - 1

\* req.user: a GammaUser (identified by cid) or absent.
Cids == {"c1", "c2"}
NoUser == "anonymous"
Users == Cids \cup {NoUser}

GameIds == {"g1", "g2", "g3"}

\* The bodies POST /add is called with: one per game id (the store gives
\* each created game a fresh unique id).
AddBodies ==
  [ g1 |-> [ name |-> <<"S","e","t","t","l","e","r","s"," ","o","f"," ","C","a","t","a","n">>,
             location |-> <<"H","u","b","b","e","n">>,
             platformName |-> "Board", dateReleased |-> 2,
             playtimeMinutes |-> 60, playerMin |-> 2, playerMax |-> 6 ],
    g2 |-> [ name |-> <<"C","a","t","a","n"," ","J","r">>,
             location |-> <<"B","a","s","e","m","e","n","t">>,
             platformName |-> "Board", dateReleased |-> 5,
             playtimeMinutes |-> 30, playerMin |-> 5, playerMax |-> 5 ],
    g3 |-> [ name |-> <<"C","h","e","s","s">>,
             location |-> <<"H","u","b","b","e","n">>,
             platformName |-> "PC", dateReleased |-> 8,
             playtimeMinutes |-> 90, playerMin |-> 1, playerMax |-> 3 ],
    g4 |-> [ name |-> <<"P","o","n","g">>,
             location |-> <<"B","a","s","e","m","e","n","t">>,
             platformName |-> "Atari", dateReleased |-> 1,
             playtimeMinutes |-> 10, playerMin |-> 2, playerMax |-> 2 ] ]

\* ------------------------------------------------------------------- state
VARIABLES
  games,       \* Game table, in insertion order: sequence of game records
  borrow,      \* Borrow table: bag of [gameId, returned]
  playStatus,  \* PlayStatus table: set of [gameId, userId]
  rating,      \* Rating table: set of [gameId, userId, score]
  inflight,    \* the /filter request that has read its games and not yet
               \* answered, when the handler is run await by await
  resp         \* the last request handled and the response sent for it

store == <<games, borrow, playStatus, rating>>
vars == <<games, borrow, playStatus, rating, inflight, resp>>

\* ----------------------------------------------------------------- strings
UpperCase == <<"A","B","C","D","E","F","G","H","I","J","K","L","M",
               "N","O","P","Q","R","S","T","U","V","W","X","Y","Z">>
LowerCase == <<"a","b","c","d","e","f","g","h","i","j","k","l","m",
               "n","o","p","q","r","s","t","u","v","w","x","y","z">>

ToLowerChar(c) ==
  IF \E i \in 1..Len(UpperCase) : UpperCase[i] = c
  THEN LowerCase[CHOOSE i \in 1..Len(UpperCase) : UpperCase[i] = c]
  ELSE c

ToLower(s) == [i \in 1..Len(s) |-> ToLowerChar(s[i])]

\* s contains t as a contiguous substring (the empty t is contained in all).
Contains(s, t) ==
  \E i \in 0..(Len(s) - Len(t)) : SubSeq(s, i + 1, i + Len(t)) = t

\* Prisma { contains: t, mode: 'insensitive' }
ContainsInsensitive(s, t) == Contains(ToLower(s), ToLower(t))

\* ----------------------------------------------------- external services
\* Platform table (platformService.platformExists); read-only here.
Platforms == {"Board", "PC"}

platformExists(name) == name \in Platforms

\* accountService.getAccountFromCid(cid)?.id
NoAccount == "undefined"

getAccountFromCid(cid) ==
  IF cid = "c1" THEN "a1" ELSE IF cid = "c2" THEN "a2" ELSE NoAccount

\* gameOwnerService.getGameOwnerIdFromCid(cid)
getGameOwnerIdFromCid(cid) == IF cid = "c1" THEN "o1" ELSE "o2"

\* gameOwnerService.getGameOwnerNameFromId(id)
getGameOwnerNameFromId(id) == IF id = "o1" THEN "Alice" ELSE "Bob"

\* ------------------------------------------------------------ store reads
\* A Game row with the relations the listing reads include (borrow,
\* playStatus), as gameService's findMany returns it.
BorrowsOf(gid) ==
  LET S == {b \in BagToSet(borrow) : b.gameId = gid}
  IN  [b \in S |-> borrow[b]]

LoadGame(g) ==
  [ id |-> g.id, name |-> g.name, location |-> g.location,
    platformName |-> g.platformName, dateReleased |-> g.dateReleased,
    playtimeMinutes |-> g.playtimeMinutes,
    playerMin |-> g.playerMin, playerMax |-> g.playerMax,
    gameOwnerId |-> g.gameOwnerId,
    borrow |-> BorrowsOf(g.id),
    playStatus |-> {p \in playStatus : p.gameId = g.id} ]

\* Prisma integer/date condition { gte?, lte? }
NoRange == [gte |-> Undef, lte |-> Undef]

InRange(v, c) ==
  /\ (c.gte = Undef \/ v >= c.gte)
  /\ (c.lte = Undef \/ v <= c.lte)

\* The Filter type of gameService (a Prisma `where`): every key optional.
\* An unset string condition is the empty string, an unset range NoRange.
EmptyFilter ==
  [ name |-> <<>>, dateReleased |-> NoRange,
    playerMax |-> NoRange, playerMin |-> NoRange,
    platform |-> "", playtimeMinutes |-> NoRange, location |-> <<>> ]

\* Prisma `where` semantics: the conjunction of the conditions that are set.
MatchesFilter(g, f) ==
  /\ (f.name = <<>> \/ ContainsInsensitive(g.name, f.name))
  /\ InRange(g.dateReleased, f.dateReleased)
  /\ InRange(g.playerMax, f.playerMax)
  /\ InRange(g.playerMin, f.playerMin)
  /\ (f.platform = "" \/ g.platformName = f.platform)
  /\ InRange(g.playtimeMinutes, f.playtimeMinutes)
  /\ (f.location = <<>> \/ ContainsInsensitive(g.location, f.location))

RECURSIVE SelectGames(_, _)
SelectGames(gs, f) ==
  IF gs = <<>> THEN <<>>
  ELSE IF MatchesFilter(Head(gs), f)
       THEN <<LoadGame(Head(gs))>> \o SelectGames(Tail(gs), f)
       ELSE SelectGames(Tail(gs), f)

filterGames(f) == SelectGames(games, f)

getAllGames == SelectGames(games, EmptyFilter)

searchGames(term) == SelectGames(games, [EmptyFilter EXCEPT !.name = term])

\* ratingService: the ratings of a game, the requesting user's own score
\* (null when there is none) and the mean of all scores.  The mean is kept
\* as the pair (sum, count); count = 0 is the empty value (null).
NoRating == 0 - 1

RatingsOf(gid) == {r \in rating : r.gameId = gid}

RECURSIVE SumScores(_)
SumScores(R) ==
  IF R = {} THEN 0
  ELSE LET r == CHOOSE x \in R : TRUE IN r.score + SumScores(R \ {r})

getAverageRating(gid) ==
  [sum |-> SumScores(RatingsOf(gid)), count |-> Cardinality(RatingsOf(gid))]

getUserRating(gid, cid) ==
  LET R == {r \in RatingsOf(gid) : r.userId = getAccountFromCid(cid)}
  IN  IF R = {} THEN NoRating ELSE (CHOOSE r \in R : TRUE).score

\* --------------------------------------------------------- POST /filter
\* filterGamesSchema's upper limit of playerCount
MaxPlayerCount == 2000

\* An absent body field: <<>> / "" for strings, Undef for numbers and dates.
NoBody ==
  [ name |-> <<>>, platform |-> "", releaseBefore |-> Undef,
    releaseAfter |-> Undef, playtimeMin |-> Undef, playtimeMax |-> Undef,
    playerCount |-> Undef, owner |-> "", location |-> <<>> ]

\* validateRequestBody(filterGamesSchema): the numeric limits.
ValidFilterBody(body) ==
  /\ (body.playtimeMin = Undef \/ body.playtimeMin >= 1)
  /\ (body.playtimeMax = Undef \/ body.playtimeMax >= 1)
  /\ (body.playerCount = Undef
        \/ (body.playerCount >= 1 /\ body.playerCount <= MaxPlayerCount))

\* JavaScript truthiness of an optional number / string-sequence / string.
TruthyNum(n) == n # Undef /\ n # 0
TruthySeq(s) == s # <<>>
TruthyStr(s) == s # ""
\* A date arrives as an ISO string: truthy whenever present.
TruthyDate(d) == d # Undef

\* The handler's filter object, built key by key in the handler's order.
WithName(f, body) ==
  IF TruthySeq(body.name) THEN [f EXCEPT !.name = body.name] ELSE f

\* Three assignments to filter.dateReleased; the last one, taken when both
\* bounds are present, replaces what the first two wrote.
\* Without the third assignment: releaseBefore overwrites releaseAfter.
WithDates_Overwrite(f, body) ==
  LET f1 == IF TruthyDate(body.releaseAfter)
            THEN [f EXCEPT !.dateReleased =
                    [gte |-> body.releaseAfter, lte |-> Undef]]
            ELSE f
  IN  IF TruthyDate(body.releaseBefore)
      THEN [f1 EXCEPT !.dateReleased =
              [gte |-> Undef, lte |-> body.releaseBefore]]
      ELSE f1

WithDates(f, body) ==
  LET f1 == IF TruthyDate(body.releaseAfter)
            THEN [f EXCEPT !.dateReleased =
                    [gte |-> body.releaseAfter, lte |-> Undef]]
            ELSE f
      f2 == IF TruthyDate(body.releaseBefore)
            THEN [f1 EXCEPT !.dateReleased =
                    [gte |-> Undef, lte |-> body.releaseBefore]]
            ELSE f1
  IN  IF TruthyDate(body.releaseAfter) /\ TruthyDate(body.releaseBefore)
      THEN [f2 EXCEPT !.dateReleased =
              [gte |-> body.releaseAfter, lte |-> body.releaseBefore]]
      ELSE f2

\* gte and lte exchanged.
WithPlayerCount_Swapped(f, body) ==
  IF TruthyNum(body.playerCount)
  THEN [f EXCEPT !.playerMax = [gte |-> Undef, lte |-> body.playerCount],
                 !.playerMin = [gte |-> body.playerCount, lte |-> Undef]]
  ELSE f

\* An absent playerCount defaults to one player.
WithPlayerCount_DefaultOne(f, body) ==
  LET count == IF TruthyNum(body.playerCount) THEN body.playerCount ELSE 1
  IN  [f EXCEPT !.playerMax = [gte |-> count, lte |-> Undef],
                !.playerMin = [gte |-> Undef, lte |-> count]]

\* Only the playerMax condition is set.
WithPlayerCount_MaxOnly(f, body) ==
  IF TruthyNum(body.playerCount)
  THEN [f EXCEPT !.playerMax = [gte |-> body.playerCount, lte |-> Undef]]
  ELSE f

WithPlayerCount(f, body) ==
  IF TruthyNum(body.playerCount)
  THEN [f EXCEPT !.playerMax = [gte |-> body.playerCount, lte |-> Undef],
                 !.playerMin = [gte |-> Undef, lte |-> body.playerCount]]
  ELSE f

WithPlatform(f, body) ==
  IF TruthyStr(body.platform) THEN [f EXCEPT !.platform = body.platform] ELSE f

\* A missing bound is filled in from the bound that is present.
WithPlaytime_BothFromOne(f, body) ==
  IF TruthyNum(body.playtimeMax) \/ TruthyNum(body.playtimeMin)
  THEN [f EXCEPT !.playtimeMinutes =
          [lte |-> IF TruthyNum(body.playtimeMax)
                   THEN body.playtimeMax ELSE body.playtimeMin,
           gte |-> IF TruthyNum(body.playtimeMin)
                   THEN body.playtimeMin ELSE body.playtimeMax]]
  ELSE f

WithPlaytime(f, body) ==
  IF TruthyNum(body.playtimeMax) \/ TruthyNum(body.playtimeMin)
  THEN [f EXCEPT !.playtimeMinutes =
          [lte |-> IF TruthyNum(body.playtimeMax)
                   THEN body.playtimeMax ELSE Undef,
           gte |-> IF TruthyNum(body.playtimeMin)
                   THEN body.playtimeMin ELSE Undef]]
  ELSE f

WithLocation(f, body) ==
  IF TruthySeq(body.location) THEN [f EXCEPT !.location = body.location] ELSE f

\* body.owner is validated by the schema but never read by the handler.
BuildFilter(body) ==
  WithLocation(
    WithPlaytime(
      WithPlatform(
        WithPlayerCount(
          WithDates(
            WithName(EmptyFilter, body), body), body), body), body), body)

\* ------------------------------------------------------------ formatGames
\* Date.toISOString().split('T')[0]: the calendar day of an instant.
FormatDate(d) == d \div TicksPerDay

\* isBorrowed from the existence of any Borrow, returned or not.
FormatGame_AnyBorrow(game, user) ==
  [ id |-> game.id, name |-> game.name,
    platformName |-> game.platformName,
    releaseDate |-> game.dateReleased \div TicksPerDay,
    playtimeMinutes |-> game.playtimeMinutes,
    playerMin |-> game.playerMin, playerMax |-> game.playerMax,
    location |-> game.location,
    owner |-> getGameOwnerNameFromId(game.gameOwnerId),
    isBorrowed |-> BagToSet(game.borrow) # {},
    ratingAvg |-> getAverageRating(game.id),
    ratingUser |-> IF user # NoUser
                   THEN getUserRating(game.id, user) ELSE NoRating,
    isPlayed |-> FALSE ]

\* ratingUser from any rating of the game, whoever gave it.
FormatGame_AnyUserRating(game, user) ==
  [ id |-> game.id, name |-> game.name,
    platformName |-> game.platformName,
    releaseDate |-> game.dateReleased \div TicksPerDay,
    playtimeMinutes |-> game.playtimeMinutes,
    playerMin |-> game.playerMin, playerMax |-> game.playerMax,
    location |-> game.location,
    owner |-> getGameOwnerNameFromId(game.gameOwnerId),
    isBorrowed |-> {b \in BagToSet(game.borrow) : ~b.returned} # {},
    ratingAvg |-> getAverageRating(game.id),
    ratingUser |-> IF RatingsOf(game.id) # {}
                   THEN (CHOOSE r \in RatingsOf(game.id) : TRUE).score
                   ELSE NoRating,
    isPlayed |-> FALSE ]

FormatGame(game, user) ==
  [ id |-> game.id, name |-> game.name,
    platformName |-> game.platformName,
    releaseDate |-> FormatDate(game.dateReleased),
    playtimeMinutes |-> game.playtimeMinutes,
    playerMin |-> game.playerMin, playerMax |-> game.playerMax,
    location |-> game.location,
    owner |-> getGameOwnerNameFromId(game.gameOwnerId),
    isBorrowed |-> {b \in BagToSet(game.borrow) : ~b.returned} # {},
    ratingAvg |-> getAverageRating(game.id),
    ratingUser |-> IF user # NoUser
                   THEN getUserRating(game.id, user) ELSE NoRating,
    isPlayed |-> FALSE ]

formatGames(gs, user) == [i \in 1..Len(gs) |-> FormatGame(gs[i], user)]

\* The /filter handler's loop over formattedGames: isPlayed of row i from
\* games[i].playStatus and the requesting user's account id.
\* isPlayed of row i looked up in the PlayStatus table when the row is built.
SetPlayed_FromStore(formatted, gs, uid) ==
  [i \in 1..Len(formatted) |->
     [formatted[i] EXCEPT !.isPlayed =
        {p \in playStatus : p.gameId = formatted[i].id /\ p.userId = uid} # {}]]

SetPlayed(formatted, gs, uid) ==
  [i \in 1..Len(formatted) |->
     [formatted[i] EXCEPT !.isPlayed =
        {played \in gs[i].playStatus : played.userId = uid} # {}]]

\* ---------------------------------------------------------------- requests
\* The request just handled and the response sent for it.
Response(path, user, gameId, term, body, status, rows) ==
  [ path |-> path, user |-> user, gameId |-> gameId, term |-> term,
    body |-> body, status |-> status, rows |-> rows,
    lookupFailed |-> FALSE ]

\* No /filter request is between its read and its response.
Idle == [phase |-> "idle", user |-> NoUser, body |-> NoBody, games |-> <<>>]

Init ==
  /\ games = <<>>
  /\ borrow = EmptyBag
  /\ playStatus = {}
  /\ rating = {}
  /\ inflight = Idle
  /\ resp = Response("none", NoUser, "", <<>>, NoBody, 0, <<>>)

StoredIds == {games[i].id : i \in 1..Len(games)}

\* GET /
GetGames(user) ==
  /\ resp' = Response("/", user, "", <<>>, NoBody, 200,
                      formatGames(getAllGames, user))
  /\ UNCHANGED <<store, inflight>>

\* GET /search?term=
SearchGamesReq(user, term) ==
  /\ resp' = Response("/search", user, "", term, NoBody, 200,
                      formatGames(searchGames(term), user))
  /\ UNCHANGED <<store, inflight>>

\* POST /filter: the rows answered for the loaded games.
FilterResponseRows(gs, user) ==
  LET formattedGames == formatGames(gs, user)
  IN  IF user # NoUser
      THEN SetPlayed(formattedGames, gs, getAccountFromCid(user))
      ELSE formattedGames

FilterRows(user, body) ==
  FilterResponseRows(filterGames(BuildFilter(body)), user)

\* Resolving isPlayed writes a play mark for every returned game.
FilterGamesReq_MarksReturned(user, body) ==
  LET rows == IF ValidFilterBody(body) THEN FilterRows(user, body) ELSE <<>>
  IN  /\ resp' = Response("/filter", user, "", <<>>, body,
                          IF ValidFilterBody(body) THEN 200 ELSE 400, rows)
      /\ playStatus' =
           IF user = NoUser THEN playStatus
           ELSE playStatus \cup
                  {[gameId |-> rows[i].id, userId |-> getAccountFromCid(user)]
                     : i \in 1..Len(rows)}
      /\ UNCHANGED <<games, borrow, rating, inflight>>

FilterGamesReq(user, body) ==
  /\ resp' = IF ValidFilterBody(body)
             THEN Response("/filter", user, "", <<>>, body, 200,
                           FilterRows(user, body))
             ELSE Response("/filter", user, "", <<>>, body, 400, <<>>)
  /\ UNCHANGED <<store, inflight>>

\* POST /add: the new game's owner is the requesting user's owner id.
NewGame(gid, body, ownerId) ==
  [ id |-> gid, name |-> body.name, location |-> body.location,
    platformName |-> body.platformName, dateReleased |-> body.dateReleased,
    playtimeMinutes |-> body.playtimeMinutes,
    playerMin |-> body.playerMin, playerMax |-> body.playerMax,
    gameOwnerId |-> ownerId ]

AddGame(user, gid) ==
  LET body == AddBodies[gid] IN
  /\ gid \notin StoredIds
  /\ Len(games) < MaxGames
  /\ IF user = NoUser
     THEN /\ resp' = Response("/add", user, gid, <<>>, NoBody, 401, <<>>)
          /\ UNCHANGED <<store, inflight>>
     ELSE IF ~platformExists(body.platformName)
     THEN /\ resp' = Response("/add", user, gid, <<>>, NoBody, 400, <<>>)
          /\ UNCHANGED <<store, inflight>>
     ELSE /\ games' = Append(games,
                        NewGame(gid, body, getGameOwnerIdFromCid(user)))
          /\ resp' = Response("/add", user, gid, <<>>, NoBody, 200, <<>>)
          /\ UNCHANGED <<borrow, playStatus, rating, inflight>>

\* gameService.markGameAsPlayed / markGameAsNotPlayed: the PlayStatus row
\* of (game, the user's account); an unknown game makes the write throw.
PlayMark(gid, cid) == [gameId |-> gid, userId |-> getAccountFromCid(cid)]

\* POST /markPlayed
MarkPlayed(user, gid) ==
  IF user = NoUser
  THEN /\ resp' = Response("/markPlayed", user, gid, <<>>, NoBody, 401, <<>>)
       /\ UNCHANGED <<store, inflight>>
  ELSE IF gid \notin StoredIds
  THEN /\ resp' = Response("/markPlayed", user, gid, <<>>, NoBody, 500, <<>>)
       /\ UNCHANGED <<store, inflight>>
  ELSE /\ playStatus' = playStatus \cup {PlayMark(gid, user)}
       /\ resp' = Response("/markPlayed", user, gid, <<>>, NoBody, 200, <<>>)
       /\ UNCHANGED <<games, borrow, rating, inflight>>

\* POST /markNotPlayed
MarkNotPlayed(user, gid) ==
  IF user = NoUser
  THEN /\ resp' = Response("/markNotPlayed", user, gid, <<>>, NoBody, 401, <<>>)
       /\ UNCHANGED <<store, inflight>>
  ELSE IF gid \notin StoredIds
  THEN /\ resp' = Response("/markNotPlayed", user, gid, <<>>, NoBody, 500, <<>>)
       /\ UNCHANGED <<store, inflight>>
  ELSE /\ playStatus' = playStatus \ {PlayMark(gid, user)}
       /\ resp' = Response("/markNotPlayed", user, gid, <<>>, NoBody, 200, <<>>)
       /\ UNCHANGED <<games, borrow, rating, inflight>>

\* Borrow write endpoints: a new open Borrow of a stored game, and setting
\* one open Borrow of a game to returned.
OpenBorrow(gid) == [gameId |-> gid, returned |-> FALSE]
ClosedBorrow(gid) == [gameId |-> gid, returned |-> TRUE]

BorrowGame(gid) ==
  /\ gid \in StoredIds
  /\ BagCardinality(borrow) < MaxBorrows
  /\ borrow' = borrow (+) SetToBag({OpenBorrow(gid)})
  /\ resp' = Response("/borrow", NoUser, gid, <<>>, NoBody, 200, <<>>)
  /\ UNCHANGED <<games, playStatus, rating, inflight>>

ReturnGame(gid) ==
  /\ BagIn(OpenBorrow(gid), borrow)
  /\ borrow' = (borrow (-) SetToBag({OpenBorrow(gid)}))
                 (+) SetToBag({ClosedBorrow(gid)})
  /\ resp' = Response("/return", NoUser, gid, <<>>, NoBody, 200, <<>>)
  /\ UNCHANGED <<games, playStatus, rating, inflight>>

\* Rating write endpoint: the user's score of a stored game, replacing the
\* user's earlier score of that game.
RateGame(user, gid, score) ==
  LET uid == getAccountFromCid(user) IN
  /\ user # NoUser
  /\ gid \in StoredIds
  /\ rating' = {r \in rating : ~(r.gameId = gid /\ r.userId = uid)}
                 \cup {[gameId |-> gid, userId |-> uid, score |-> score]}
  /\ resp' = Response("/rate", user, gid, <<>>, NoBody, 200, <<>>)
  /\ UNCHANGED <<games, borrow, playStatus, inflight>>

\* POST /filter run await by await.  FilterRead is the handler up to and
\* including `await filterGames(filter)`: the loaded games are the handler's
\* local array.  FilterRespond is the rest: formatGames, the isPlayed loop
\* and res.json.  Other requests may be handled between the two.
FilterRead(user, body) ==
  /\ inflight.phase = "idle"
  /\ ValidFilterBody(body)
  /\ inflight' = [phase |-> "loaded", user |-> user, body |-> body,
                  games |-> filterGames(BuildFilter(body))]
  /\ UNCHANGED <<store, resp>>

\* The answered request keeps its loaded games.
FilterRespond ==
  /\ inflight.phase = "loaded"
  /\ resp' = Response("/filter", inflight.user, "", <<>>, inflight.body, 200,
                      FilterResponseRows(inflight.games, inflight.user))
  /\ inflight' = [inflight EXCEPT !.phase = "answered"]
  /\ UNCHANGED store

\* A listing whose formatGames rejects: one of the per-game lookups
\* (getGameOwnerNameFromId, getAverageRating, getUserRating) of a loaded
\* game throws, Promise.all rejects, and the handler, an async function
\* without try/catch, ends with a rejected promise before res.json.  What
\* the caller gets is decided outside the route: the framework either
\* forwards the rejection to its error handler (status 500) or ignores the
\* handler's promise, and then no response is ever sent (status 0).
AbortOutcomes == {500, 0}

AbortedListing(path, user, term, body, gs, outcome) ==
  /\ gs # <<>>
  /\ resp' = [Response(path, user, "", term, body, outcome, <<>>)
                EXCEPT !.lookupFailed = TRUE]
  /\ UNCHANGED <<store, inflight>>

GetGamesLookupFails(user, outcome) ==
  AbortedListing("/", user, <<>>, NoBody, getAllGames, outcome)

SearchGamesLookupFails(user, term, outcome) ==
  AbortedListing("/search", user, term, NoBody, searchGames(term), outcome)

FilterGamesLookupFails(user, body, outcome) ==
  /\ ValidFilterBody(body)
  /\ AbortedListing("/filter", user, <<>>, body,
                    filterGames(BuildFilter(body)), outcome)

\* ------------------------------------------------------------ input sets
\* POST /add requests of the full service run, and of the filter run.
SomeAddRequests ==
  { <<"c1", "g1">>, <<"c2", "g2">>, <<"c2", "g4">>, <<NoUser, "g1">> }

AddRequests == SomeAddRequests \cup { <<"c1", "g3">> }

SearchTerms == { <<>>, <<"J","R">> }

\* Filter bodies of the full service run: at most one field present.
SomeBodies ==
  { NoBody,
    [NoBody EXCEPT !.name = <<"C","a","t","a","n">>],
    [NoBody EXCEPT !.playerCount = 4],
    [NoBody EXCEPT !.playerCount = 0],
    [NoBody EXCEPT !.owner = "o1"] }

\* Filter bodies of the filter run: every combination of the field values.
AllBodies ==
  [ name : { <<>>, <<"C","a","t","a","n">>, <<"j","R">> },
    platform : { "", "Board" },
    releaseBefore : { Undef, 2, 5 },
    releaseAfter : { Undef, 2, 5 },
    playtimeMin : { Undef, 60 },
    playtimeMax : { Undef, 60 },
    playerCount : { Undef, 0, 3, 4, 5 },
    owner : { "", "o1" },
    location : { <<>>, <<"h","u","b">> } ]

\* Requests of the enrichment run.
EnrichMarks == { <<"c1", "g1">>, <<"c2", "g2">>, <<NoUser, "g1">> }
EnrichRatings == { <<"c1", "g1", 4>>, <<"c2", "g1", 1>>, <<"c2", "g2", 5>> }
EnrichTerms == { <<"J","R">> }
EnrichBodies == { NoBody, [NoBody EXCEPT !.name = <<"C","a","t","a","n">>] }

\* Requests of the interleaved run.
AsyncMarks == { <<"c1", "g1">>, <<"c1", "g2">> }
AsyncUsers == { "c1", NoUser }

\* ---------------------------------------------------------- specifications
Next ==
  \/ \E r \in SomeAddRequests : AddGame(r[1], r[2])
  \/ \E u \in Users, g \in GameIds : MarkPlayed(u, g)
  \/ \E u \in Users, g \in GameIds : MarkNotPlayed(u, g)
  \/ \E g \in GameIds : BorrowGame(g)
  \/ \E g \in GameIds : ReturnGame(g)
  \/ \E u \in Users : GetGames(u)
  \/ \E u \in Users, t \in SearchTerms : SearchGamesReq(u, t)
  \/ \E u \in Users, b \in SomeBodies : FilterGamesReq(u, b)

Spec == Init /\ [][Next]_vars

\* The filter run: games are added, then one /filter request with any body.
NextFilter ==
  \/ \E r \in AddRequests : AddGame(r[1], r[2])
  \/ /\ resp.path # "/filter"
     /\ \E u \in Users, b \in AllBodies : FilterGamesReq(u, b)

SpecFilter == Init /\ [][NextFilter]_vars

\* The enrichment run: play marks, ratings and borrows are written, listings
\* are answered, and a lookup of formatGames may fail.
NextEnrich ==
  \/ \E r \in SomeAddRequests : AddGame(r[1], r[2])
  \/ \E m \in EnrichMarks : MarkPlayed(m[1], m[2])
  \/ \E r \in EnrichRatings : RateGame(r[1], r[2], r[3])
  \/ BorrowGame("g1")
  \/ \E u \in Users : GetGames(u)
  \/ \E u \in Users, t \in EnrichTerms : SearchGamesReq(u, t)
  \/ \E u \in Users, b \in EnrichBodies : FilterGamesReq(u, b)
  \/ \E u \in Users, o \in AbortOutcomes : GetGamesLookupFails(u, o)
  \/ \E u \in Users, t \in EnrichTerms, o \in AbortOutcomes :
       SearchGamesLookupFails(u, t, o)
  \/ \E u \in Users, b \in EnrichBodies, o \in AbortOutcomes :
       FilterGamesLookupFails(u, b, o)

SpecEnrich == Init /\ [][NextEnrich]_vars

\* The interleaved run: one /filter request is read and answered in two
\* steps while writes are handled before, between and up to its response.
NextAsync ==
  \/ /\ inflight.phase # "answered"
     /\ \/ \E r \in SomeAddRequests : AddGame(r[1], r[2])
        \/ \E m \in AsyncMarks : MarkPlayed(m[1], m[2])
        \/ \E m \in AsyncMarks : MarkNotPlayed(m[1], m[2])
        \/ BorrowGame("g1")
        \/ ReturnGame("g1")
  \/ \E u \in AsyncUsers, b \in EnrichBodies : FilterRead(u, b)
  \/ FilterRespond

SpecAsync == Init /\ [][NextAsync]_vars

\* =================================================================== claims
ListingPaths == {"/", "/search", "/filter"}

\* The last request was a listing that was answered with rows.
IsListing == resp.path \in ListingPaths /\ resp.status = 200
IsFilter == resp.path = "/filter" /\ resp.status = 200

Rows == resp.rows
RowIds == {Rows[i].id : i \in 1..Len(Rows)}

StoredGame(gid) == games[CHOOSE i \in 1..Len(games) : games[i].id = gid]

\* No field of the body outside F is present.
OnlyPresent(body, F) == \A k \in (DOMAIN NoBody) \ F : body[k] = NoBody[k]

\* ----------------------------------------------------------------------- C1
\* In every listing response, a row's isBorrowed is true iff the Borrow
\* table holds at least one record of that game with returned = false.
C1_RowsReflectOpenBorrows ==
  IsListing =>
    \A i \in 1..Len(Rows) :
      Rows[i].isBorrowed <=> BagIn(OpenBorrow(Rows[i].id), borrow)

\* When the request just handled returned the last open borrow of a game and
\* the next request is a listing, that game's row has isBorrowed = false.
C1_ReturnOfLastOpenBorrowFlips ==
  [][ ( /\ resp.path = "/return"
        /\ ~BagIn(OpenBorrow(resp.gameId), borrow)
        /\ resp'.path \in ListingPaths /\ resp'.status = 200 )
      => \A i \in 1..Len(resp'.rows) :
           resp'.rows[i].id = resp.gameId => ~resp'.rows[i].isBorrowed ]_vars

\* C1: for every row of every listing path, isBorrowed is true iff the game
\* has at least one Borrow with returned = false (however many are open), and
\* after the last open borrow is returned the next listing reports false.
C1_IsBorrowed == []C1_RowsReflectOpenBorrows /\ C1_ReturnOfLastOpenBorrowFlips

\* A listing that shows one game borrowed through two open borrows.
C1_Witness ==
  /\ IsListing
  /\ \E i \in 1..Len(Rows) :
       /\ Rows[i].isBorrowed
       /\ CopiesIn(OpenBorrow(Rows[i].id), borrow) = 2

\* ----------------------------------------------------------------------- C2
DateOK(g, body) ==
  /\ (body.releaseAfter = Undef \/ g.dateReleased >= body.releaseAfter)
  /\ (body.releaseBefore = Undef \/ g.dateReleased <= body.releaseBefore)

\* C2: every game /filter returns lies in the inclusive release-date interval
\* of the request (an absent bound does not constrain); when only date fields
\* are present exactly the stored games in the interval are returned; and
\* releaseAfter > releaseBefore gives an empty result with status 200.
C2_ReleaseDateInterval ==
  IsFilter =>
    /\ \A id \in RowIds : DateOK(StoredGame(id), resp.body)
    /\ OnlyPresent(resp.body, {"releaseAfter", "releaseBefore"}) =>
         RowIds = {id \in StoredIds : DateOK(StoredGame(id), resp.body)}
    /\ ( /\ resp.body.releaseAfter # Undef
         /\ resp.body.releaseBefore # Undef
         /\ resp.body.releaseAfter > resp.body.releaseBefore ) => Rows = <<>>

\* Both bounds present and a stored game is excluded by the lower bound alone
\* while another is returned.
C2_Witness ==
  /\ IsFilter
  /\ OnlyPresent(resp.body, {"releaseAfter", "releaseBefore"})
  /\ resp.body.releaseAfter # Undef /\ resp.body.releaseBefore # Undef
  /\ RowIds # {}
  /\ \E id \in StoredIds \ RowIds :
       StoredGame(id).dateReleased < resp.body.releaseAfter

\* ----------------------------------------------------------------------- C3
\* C3: when the filter request has an owner field, every returned game is
\* owned by exactly that owner.
C3_OwnerExactMatch ==
  (IsFilter /\ resp.body.owner # "") =>
    \A id \in RowIds : StoredGame(id).gameOwnerId = resp.body.owner

\* ----------------------------------------------------------------------- C4
PlayerCountOK(g, body) ==
  body.playerCount = Undef
    \/ (g.playerMin <= body.playerCount /\ body.playerCount <= g.playerMax)

\* C4: every game /filter returns has playerMin <= playerCount <= playerMax
\* for the request's playerCount, and when playerCount is the only field
\* present exactly the stored games with that property are returned.
C4_PlayerCountInclusive ==
  IsFilter =>
    /\ \A id \in RowIds : PlayerCountOK(StoredGame(id), resp.body)
    /\ OnlyPresent(resp.body, {"playerCount"}) =>
         RowIds = {id \in StoredIds : PlayerCountOK(StoredGame(id), resp.body)}

\* playerCount equal to a stored game's playerMax returns that game, while
\* another stored game is excluded.
C4_Witness ==
  /\ IsFilter
  /\ OnlyPresent(resp.body, {"playerCount"})
  /\ resp.body.playerCount # Undef
  /\ \E id \in RowIds : StoredGame(id).playerMax = resp.body.playerCount
  /\ StoredIds \ RowIds # {}

\* ----------------------------------------------------------------------- C5
PlayersOf(g) == <<g.playerMin, g.playerMax>>

\* The scenario: the filter {playerCount: 4} answered over three stored games
\* with (playerMin, playerMax) = (2, 6), (5, 5) and (1, 3).
C5_Scenario ==
  /\ IsFilter
  /\ resp.body = [NoBody EXCEPT !.playerCount = 4]
  /\ Len(games) = 3
  /\ {PlayersOf(games[i]) : i \in 1..3} = {<<2, 6>>, <<5, 5>>, <<1, 3>>}

RowPlayers == {<<Rows[i].playerMin, Rows[i].playerMax>> : i \in 1..Len(Rows)}

\* C5 as stated: the scenario returns exactly the (2, 6) and (5, 5) games.
C5_ReturnsFirstTwo == C5_Scenario => RowPlayers = {<<2, 6>>, <<5, 5>>}

\* C5 amended: the scenario returns exactly the (2, 6) game; 4 is below the
\* playerMin of (5, 5) and above the playerMax of (1, 3).
C5_ReturnsFirstOnly == C5_Scenario => (Len(Rows) = 1 /\ RowPlayers = {<<2, 6>>})

C5_Witness == C5_Scenario /\ Len(Rows) = 1

\* ----------------------------------------------------------------------- C6
NameOK(g, body) == body.name = <<>> \/ ContainsInsensitive(g.name, body.name)
LocationOK(g, body) ==
  body.location = <<>> \/ ContainsInsensitive(g.location, body.location)
PlatformOK(g, body) == body.platform = "" \/ g.platformName = body.platform
OwnerOK(g, body) == body.owner = "" \/ g.gameOwnerId = body.owner
PlaytimeOK(g, body) ==
  /\ (body.playtimeMin = Undef \/ g.playtimeMinutes >= body.playtimeMin)
  /\ (body.playtimeMax = Undef \/ g.playtimeMinutes <= body.playtimeMax)

\* Every predicate whose field is present in the body holds of the game.
AllPresentOK(g, body) ==
  /\ NameOK(g, body) /\ LocationOK(g, body) /\ PlatformOK(g, body)
  /\ OwnerOK(g, body) /\ DateOK(g, body) /\ PlaytimeOK(g, body)
  /\ PlayerCountOK(g, body)

\* C6: /filter returns exactly the stored games that satisfy every predicate
\* whose field is present in the request (name and location as
\* case-insensitive substrings); absent fields constrain nothing.
C6_ConjunctionOfPresent ==
  IsFilter =>
    RowIds = {id \in StoredIds : AllPresentOK(StoredGame(id), resp.body)}

\* ----------------------------------------------------------------------- C7
\* C7: a filter request with no field present returns every stored game, in
\* the store's order.
C7_EmptyFilterReturnsAll ==
  (IsFilter /\ resp.body = NoBody) =>
    /\ Len(Rows) = Len(games)
    /\ \A i \in 1..Len(games) : Rows[i].id = games[i].id

C7_Witness == IsFilter /\ resp.body = NoBody /\ Len(Rows) = 3

\* ----------------------------------------------------------------------- C8
\* C8: every game /filter returns satisfies each playtime bound that is
\* present, and when only playtime fields are present exactly the stored
\* games within the present bounds are returned (an absent bound imposes
\* nothing).
C8_PlaytimeBoundsIndependent ==
  IsFilter =>
    /\ \A id \in RowIds : PlaytimeOK(StoredGame(id), resp.body)
    /\ OnlyPresent(resp.body, {"playtimeMin", "playtimeMax"}) =>
         RowIds = {id \in StoredIds : PlaytimeOK(StoredGame(id), resp.body)}

\* Only playtimeMax is present and a returned game lies strictly below it.
C8_Witness ==
  /\ IsFilter
  /\ OnlyPresent(resp.body, {"playtimeMax"})
  /\ resp.body.playtimeMax # Undef
  /\ \E id \in RowIds : StoredGame(id).playtimeMinutes < resp.body.playtimeMax
  /\ StoredIds \ RowIds # {}

\* ----------------------------------------------------------------------- C9
\* C9: in every listing answered for an authenticated user (GET /, /search,
\* /filter), a row's isPlayed is true iff the PlayStatus table holds the mark
\* of (that game, that user's account).
C9_IsPlayedIffMarked ==
  (IsListing /\ resp.user # NoUser) =>
    \A i \in 1..Len(Rows) :
      Rows[i].isPlayed <=> PlayMark(Rows[i].id, resp.user) \in playStatus

\* ---------------------------------------------------------------------- C10
\* C10: when a successful markPlayed of (user, game) is followed by a listing
\* for that user, the game's row has isPlayed = true; when a successful
\* markNotPlayed is followed by such a listing, the row has isPlayed = false.
C10_MarkThenQuery ==
  [][ ( /\ resp.path \in {"/markPlayed", "/markNotPlayed"}
        /\ resp.status = 200
        /\ resp'.path \in ListingPaths /\ resp'.status = 200
        /\ resp'.user = resp.user )
      => \A i \in 1..Len(resp'.rows) :
           resp'.rows[i].id = resp.gameId =>
             (resp'.rows[i].isPlayed <=> resp.path = "/markPlayed") ]_vars

\* ---------------------------------------------------------------------- C11
\* C11: in every listing answered for a request without identity, every row
\* has isPlayed = false and ratingUser = null, whatever play marks and
\* ratings the store holds.
C11_AnonymousRows ==
  (IsListing /\ resp.user = NoUser) =>
    \A i \in 1..Len(Rows) :
      ~Rows[i].isPlayed /\ Rows[i].ratingUser = NoRating

\* An anonymous listing with a row of a game that has a play mark and a
\* rating in the store.
C11_Witness ==
  /\ IsListing /\ resp.user = NoUser
  /\ \E i \in 1..Len(Rows) :
       /\ \E p \in playStatus : p.gameId = Rows[i].id
       /\ RatingsOf(Rows[i].id) # {}

\* ---------------------------------------------------------------------- C12
\* C12: when a per-game lookup fails for a matched game, the request is
\* answered, with a failure, and without any game row.
C12_FailedLookupIsAnsweredWithFailure ==
  resp.lookupFailed =>
    /\ resp.status # 0
    /\ resp.status # 200
    /\ resp.rows = <<>>

\* ---------------------------------------------------------------------- C13
\* A step that handles a listing request, answered or aborted, leaves the
\* Game, Borrow, PlayStatus and Rating tables as they were.
C13_ListingLeavesStore ==
  [][ resp'.path \in ListingPaths => store' = store ]_vars

\* A listing that repeats the listing just answered gets the same rows.
C13_RepeatedListingSameRows ==
  [][ ( /\ IsListing
        /\ resp'.path = resp.path /\ resp'.status = 200
        /\ resp'.user = resp.user /\ resp'.term = resp.term
        /\ resp'.body = resp.body )
      => resp'.rows = resp.rows ]_vars

\* C13: handling GET /, /search or /filter, whether the request succeeds or
\* fails, changes no Game, Borrow, PlayMark or Rating record, and a request's
\* rows do not depend on the requests handled before it.
C13_QueriesReadOnly == C13_ListingLeavesStore /\ C13_RepeatedListingSameRows

\* A listing aborted by a failed lookup over a store that holds records of
\* all four kinds.
C13_Witness ==
  /\ resp.path \in ListingPaths /\ resp.lookupFailed
  /\ games # <<>> /\ borrow # EmptyBag /\ playStatus # {} /\ rating # {}

\* ---------------------------------------------------------------------- C14
\* C14: the rows of an answered /filter request describe, row by row, the
\* games its single read loaded: row i has the id of loaded game i, its
\* isBorrowed says whether loaded game i came with an unreturned borrow, and
\* its isPlayed says whether loaded game i came with a play mark of the
\* requesting user; writes handled between the read and the response change
\* none of them.
C14_RowsFromLoadedGames ==
  inflight.phase = "answered" =>
    /\ Len(Rows) = Len(inflight.games)
    /\ \A i \in 1..Len(Rows) :
         LET game == inflight.games[i] IN
         /\ Rows[i].id = game.id
         /\ Rows[i].isBorrowed <=> BagIn(OpenBorrow(game.id), game.borrow)
         /\ Rows[i].isPlayed <=>
              ( /\ resp.user # NoUser
                /\ PlayMark(game.id, resp.user) \in game.playStatus )

\* An answered /filter whose row still shows a game as played although a
\* markNotPlayed handled after the read has removed the mark, next to a row
\* of another game.
C14_Witness ==
  /\ inflight.phase = "answered"
  /\ Len(Rows) = 2
  /\ \E i \in 1..Len(Rows) :
       /\ Rows[i].isPlayed
       /\ PlayMark(Rows[i].id, resp.user) \notin playStatus

====
